---- MODULE Spec2Model ----
(***************************************************************************)
(* Consultation pipeline of pulsepoint: the /consult endpoint (main.py),   *)
(* the LangGraph council (council.py), the guardrail evaluator             *)
(* (guardrails.py), the variant assigner (ab_testing.py) and the           *)
(* performance monitor (performance_monitoring.py).                        *)
(*                                                                         *)
(* A Python str is a sequence of one-character strings, so that lower(),   *)
(* upper(), split() and the substring test `in` are computed as Python     *)
(* computes them.  A Python dict is a sequence of [k, v] entries in        *)
(* insertion order.  A float confidence is an integer number of            *)
(* thousandths.                                                            *)
(***************************************************************************)
EXTENDS Integers, Sequences, FiniteSets, TLC

VARIABLES
    pc,                 \* position of the request handler / of the harness
    str_hash,           \* hash("prompt_style:<patient_id>") % 100 of this process
    request,            \* ConsultationRequest: text, image, patient_id
    formatted_text,     \* main.consult: formatted_text
    state,              \* council.ConsultationState
    locals,             \* local variables of the running council node
    invocations,        \* LLM client calls made for the request, in order
    image_storage,      \* council.consult: image_metadata (Spaces upload)
    guardrail_results,  \* main.consult: guardrail_results
    evaluations,        \* main.consult: evaluations
    stored,             \* the consultation record is in MongoDB
    dataset_logged,     \* the consultation was handed to the dataset logger
    span_logged,        \* the evaluations were written to the evaluation span
    http,               \* what the endpoint returned: status and body
    call,               \* harness: arguments of a direct call of one function
    ret                 \* harness: what that call returned

vars == <<pc, str_hash, request, formatted_text, state, locals, invocations,
          image_storage, guardrail_results, evaluations, stored,
          dataset_logged, span_logged, http, call, ret>>

-----------------------------------------------------------------------------
(* Bounds of the model *)

\* filler words a harness response is padded with beyond the word limit
MaxOver == 2

-----------------------------------------------------------------------------
(* Python str *)

\* Python None where a str is expected
None == <<"<None>">>
NoImage == "<None>"

ASCII_UPPER == <<"A","B","C","D","E","F","G","H","I","J","K","L","M",
                 "N","O","P","Q","R","S","T","U","V","W","X","Y","Z">>
ASCII_LOWER == <<"a","b","c","d","e","f","g","h","i","j","k","l","m",
                 "n","o","p","q","r","s","t","u","v","w","x","y","z">>

UpperIndex == [c \in {ASCII_UPPER[i] : i \in 1..26} |->
                  CHOOSE i \in 1..26 : ASCII_UPPER[i] = c]
LowerIndex == [c \in {ASCII_LOWER[i] : i \in 1..26} |->
                  CHOOSE i \in 1..26 : ASCII_LOWER[i] = c]

LowerChar(c) == IF c \in DOMAIN UpperIndex THEN ASCII_LOWER[UpperIndex[c]] ELSE c
UpperChar(c) == IF c \in DOMAIN LowerIndex THEN ASCII_UPPER[LowerIndex[c]] ELSE c

\* str.lower(), str.upper()
Lower(s) == [i \in 1..Len(s) |-> LowerChar(s[i])]
Upper(s) == [i \in 1..Len(s) |-> UpperChar(s[i])]

\* sub in s
Contains(s, sub) ==
    \/ sub = <<>>
    \/ \E i \in 0..(Len(s) - Len(sub)) :
          s[i + 1] = sub[1] /\ SubSeq(s, i + 1, i + Len(sub)) = sub

\* any(k in s for k in words)
ContainsAny(s, words) == \E k \in 1..Len(words) : Contains(s, words[k])

IsSpace(c) == c \in {" ", "\n", "\t", "\r"}

\* len(s.split()): the maximal runs of non-whitespace characters
WordCount(s) ==
    Cardinality({i \in 1..Len(s) :
                    ~IsSpace(s[i]) /\ (i = 1 \/ IsSpace(s[i - 1]))})

\* bool(s) of an Optional[str]
Truthy(s) == s # None /\ s # <<>>

RECURSIVE Words(_, _)
\* n copies of word w, each followed by a blank
Words(w, n) == IF n = 0 THEN <<>> ELSE w \o <<" ">> \o Words(w, n - 1)

-----------------------------------------------------------------------------
(* Python dict, insertion ordered *)

DictKeys(d) == {d[i].k : i \in 1..Len(d)}
DictHas(d, key) == key \in DictKeys(d)
DictGet(d, key) == d[CHOOSE i \in 1..Len(d) : d[i].k = key].v
DictSet(d, key, val) ==
    IF DictHas(d, key)
    THEN [i \in 1..Len(d) |-> IF d[i].k = key THEN [k |-> key, v |-> val] ELSE d[i]]
    ELSE Append(d, [k |-> key, v |-> val])
DictValues(d) == [i \in 1..Len(d) |-> d[i].v]

-----------------------------------------------------------------------------
(* config.py *)

HIGH_STAKES_KEYWORDS == <<
    <<"c","h","e","s","t"," ","p","a","i","n">>,
    <<"c","a","n","'","t"," ","b","r","e","a","t","h","e">>,
    <<"u","n","c","o","n","s","c","i","o","u","s">>,
    <<"s","e","v","e","r","e"," ","b","l","e","e","d","i","n","g">>,
    <<"s","t","r","o","k","e">>,
    <<"h","e","a","r","t"," ","a","t","t","a","c","k">>,
    <<"a","n","a","p","h","y","l","a","x","i","s">>,
    <<"c","h","o","k","i","n","g">>,
    <<"s","e","i","z","u","r","e">> >>

-----------------------------------------------------------------------------
(* guardrails.py *)

\* check_response_length's default max_words
DEFAULT_MAX_WORDS == 50

\* "WARNING:" in message; a message is the sequence of the fragments its
\* f-string is made of
HasWarningMarker(message) == \E i \in 1..Len(message) : message[i] = "WARNING:"

check_emergency_keywords_routed(patient_input, route) ==
    LET has_emergency == ContainsAny(Lower(patient_input), HIGH_STAKES_KEYWORDS)
    IN  IF has_emergency /\ route = "fast"
        THEN [passed |-> TRUE,
              message |-> <<"WARNING:", " Emergency keywords detected but routed to fast path">>]
        ELSE [passed |-> TRUE, message |-> <<"Emergency routing check passed">>]

check_response_length_ge(response, max_words) ==
    LET word_count == WordCount(response)
    IN  IF word_count >= max_words
        THEN [passed |-> TRUE,
              message |-> <<"WARNING:", " Response exceeds limit (", ToString(word_count),
                            " words > ", ToString(max_words), " words for TTS)">>]
        ELSE [passed |-> TRUE,
              message |-> <<"Length check passed (", ToString(word_count), "/",
                            ToString(max_words), " words)">>]

check_response_length(response, max_words) ==
    LET word_count == WordCount(response)
    IN  IF word_count > max_words
        THEN [passed |-> TRUE,
              message |-> <<"WARNING:", " Response exceeds limit (", ToString(word_count),
                            " words > ", ToString(max_words), " words for TTS)">>]
        ELSE [passed |-> TRUE,
              message |-> <<"Length check passed (", ToString(word_count), "/",
                            ToString(max_words), " words)">>]

URGENCY_LEVELS == << <<"L","O","W">>, <<"M","E","D","I","U","M">>,
                     <<"H","I","G","H">>, <<"E","M","E","R","G","E","N","C","Y">> >>

check_urgency_present(response) ==
    LET has_urgency == ContainsAny(Upper(response), URGENCY_LEVELS)
    IN  IF ~has_urgency
        THEN [passed |-> TRUE, message |-> <<"WARNING:", " Response missing urgency level">>]
        ELSE [passed |-> TRUE, message |-> <<"Urgency level present in response">>]

ACTION_KEYWORDS == << <<"c","a","l","l">>, <<"e","m","e","r","g","e","n","c","y">>,
                      <<"9","1","1">>, <<"h","o","s","p","i","t","a","l">>,
                      <<"a","m","b","u","l","a","n","c","e">>,
                      <<"i","m","m","e","d","i","a","t","e","l","y">> >>

check_medical_disclaimer_compliance(response, route) ==
    LET has_action == ContainsAny(Lower(response), ACTION_KEYWORDS)
        passed_result == [passed |-> TRUE,
                          message |-> <<"Disclaimer compliance check passed">>]
    IN  IF Contains(Upper(response), <<"E","M","E","R","G","E","N","C","Y">>)
        THEN IF ~has_action
             THEN [passed |-> TRUE,
                   message |-> <<"WARNING:",
                                 " Emergency urgency without immediate action directive">>]
             ELSE passed_result
        ELSE passed_result

\* the list `checks` of run_all_guardrails, in the order it is built
GuardrailChecks(patient_input, response, urgency, route) == <<
    [name |-> "emergency_routing",
     result |-> check_emergency_keywords_routed(patient_input, route)],
    [name |-> "response_length",
     result |-> check_response_length(response, DEFAULT_MAX_WORDS)],
    [name |-> "urgency_present",
     result |-> check_urgency_present(response)],
    [name |-> "disclaimer_compliance",
     result |-> check_medical_disclaimer_compliance(response, route)] >>

RECURSIVE GuardrailLoop_ShortCircuit(_, _, _)
\* a loop that stops at the first check that warns
GuardrailLoop_ShortCircuit(checks, i, results) ==
    IF i > Len(checks) THEN results
    ELSE LET c == checks[i]
             withCheck == [results EXCEPT !.checks =
                              Append(@, [name |-> c.name, passed |-> c.result.passed,
                                         message |-> c.result.message])]
         IN  IF HasWarningMarker(c.result.message)
             THEN [withCheck EXCEPT !.warnings =
                      Append(@, [check |-> c.name, message |-> c.result.message])]
             ELSE GuardrailLoop_ShortCircuit(checks, i + 1, withCheck)

RECURSIVE GuardrailLoop(_, _, _)
\* the for loop of run_all_guardrails over checks[i..]
GuardrailLoop(checks, i, results) ==
    IF i > Len(checks) THEN results
    ELSE LET c == checks[i]
             withCheck == [results EXCEPT !.checks =
                              Append(@, [name |-> c.name, passed |-> c.result.passed,
                                         message |-> c.result.message])]
             withWarning ==
                 IF HasWarningMarker(c.result.message)
                 THEN [withCheck EXCEPT !.warnings =
                          Append(@, [check |-> c.name, message |-> c.result.message])]
                 ELSE withCheck
         IN  GuardrailLoop(checks, i + 1, withWarning)

\* an evaluator whose all_passed is false as soon as a check warns
run_all_guardrails_blocking(patient_input, response, urgency, route) ==
    LET r == GuardrailLoop(GuardrailChecks(patient_input, response, urgency, route), 1,
                           [all_passed |-> TRUE, warnings |-> <<>>, checks |-> <<>>])
    IN  [r EXCEPT !.all_passed = (r.warnings = <<>>)]

run_all_guardrails(patient_input, response, urgency, route) ==
    GuardrailLoop(GuardrailChecks(patient_input, response, urgency, route), 1,
                  [all_passed |-> TRUE, warnings |-> <<>>, checks |-> <<>>])

-----------------------------------------------------------------------------
(* ab_testing.py *)

\* ACTIVE_EXPERIMENTS, each percentage as int(percentage * 100)
ACTIVE_EXPERIMENTS == <<
    [k |-> "prompt_style",
     v |-> [enabled |-> TRUE,
            variants |-> <<[k |-> "control", v |-> 70],
                           [k |-> "detailed", v |-> 15],
                           [k |-> "empathetic", v |-> 15]>>]],
    [k |-> "council_threshold",
     v |-> [enabled |-> FALSE,
            variants |-> <<[k |-> "control", v |-> 50],
                           [k |-> "sensitive", v |-> 25],
                           [k |-> "aggressive", v |-> 25]>>]] >>

RECURSIVE VariantLoop_Inclusive(_, _, _, _)
\* a loop that compares the bucket with <=
VariantLoop_Inclusive(variants, i, cumulative, hash_value) ==
    IF i > Len(variants) THEN "control"
    ELSE IF hash_value <= cumulative + variants[i].v THEN variants[i].k
    ELSE VariantLoop_Inclusive(variants, i + 1, cumulative + variants[i].v, hash_value)

RECURSIVE VariantLoop(_, _, _, _)
\* the for loop of get_variant over variants[i..]
VariantLoop(variants, i, cumulative, hash_value) ==
    IF i > Len(variants) THEN "control"
    ELSE IF hash_value < cumulative + variants[i].v THEN variants[i].k
    ELSE VariantLoop(variants, i + 1, cumulative + variants[i].v, hash_value)

\* get_variant, given the process's hash of "experiment_name:patient_id" mod 100
get_variant(experiment_name, patient_id, hashes) ==
    IF ~DictHas(ACTIVE_EXPERIMENTS, experiment_name)
          \/ ~DictGet(ACTIVE_EXPERIMENTS, experiment_name).enabled
    THEN "control"
    ELSE VariantLoop(DictGet(ACTIVE_EXPERIMENTS, experiment_name).variants, 1, 0,
                     hashes[<<experiment_name, patient_id>>])

-----------------------------------------------------------------------------
(* performance_monitoring.py; a float is an integer number of thousandths *)

\* PerformanceMonitor.THRESHOLDS: max_value or min_value (the other is None)
\* and warning_level
THRESHOLDS == <<
    [k |-> "response_latency",
     v |-> [has_max |-> TRUE, max_value |-> 15000, has_min |-> FALSE, min_value |-> 0,
            warning_level |-> 800]],
    [k |-> "word_count",
     v |-> [has_max |-> TRUE, max_value |-> 30000, has_min |-> FALSE, min_value |-> 0,
            warning_level |-> 900]],
    [k |-> "confidence_score",
     v |-> [has_max |-> FALSE, max_value |-> 0, has_min |-> TRUE, min_value |-> 700,
            warning_level |-> 900]],
    [k |-> "hallucination_score",
     v |-> [has_max |-> TRUE, max_value |-> 300, has_min |-> FALSE, min_value |-> 0,
            warning_level |-> 700]],
    [k |-> "council_consensus",
     v |-> [has_max |-> FALSE, max_value |-> 0, has_min |-> TRUE, min_value |-> 660,
            warning_level |-> 900]] >>

\* a max check that is critical at the limit itself
MaxCheck_Inclusive(threshold, value) ==
    IF ~threshold.has_max THEN [status |-> "ok", severity |-> "None"]
    ELSE IF value >= threshold.max_value
         THEN [status |-> "critical", severity |-> "error"]
    ELSE IF value * 1000 > threshold.max_value * threshold.warning_level
         THEN [status |-> "warning", severity |-> "warning"]
    ELSE [status |-> "ok", severity |-> "None"]

\* status and severity after the max check of check_threshold:
\* value > max_value * warning_level, both sides times 1000
MaxCheck(threshold, value) ==
    IF ~threshold.has_max THEN [status |-> "ok", severity |-> "None"]
    ELSE IF value > threshold.max_value
         THEN [status |-> "critical", severity |-> "error"]
    ELSE IF value * 1000 > threshold.max_value * threshold.warning_level
         THEN [status |-> "warning", severity |-> "warning"]
    ELSE [status |-> "ok", severity |-> "None"]

\* a min check whose warning threshold is min_value * warning_level
MinCheck_Times(threshold, value, before) ==
    IF ~threshold.has_min THEN before
    ELSE IF value < threshold.min_value
         THEN [status |-> "critical", severity |-> "error"]
    ELSE IF value * 1000 < threshold.min_value * threshold.warning_level
         THEN [status |-> "warning", severity |-> "warning"]
    ELSE before

\* status and severity after the min check, which follows the max check:
\* value < min_value / warning_level, both sides times warning_level
MinCheck(threshold, value, before) ==
    IF ~threshold.has_min THEN before
    ELSE IF value < threshold.min_value
         THEN [status |-> "critical", severity |-> "error"]
    ELSE IF value * threshold.warning_level < threshold.min_value * 1000
         THEN [status |-> "warning", severity |-> "warning"]
    ELSE before

check_threshold(metric_name, value) ==
    IF ~DictHas(THRESHOLDS, metric_name)
    THEN [metric |-> metric_name, value |-> value, status |-> "unknown",
          severity |-> "None"]
    ELSE LET threshold == DictGet(THRESHOLDS, metric_name)
             r == MinCheck(threshold, value, MaxCheck(threshold, value))
         IN  [metric |-> metric_name, value |-> value, status |-> r.status,
              severity |-> r.severity]

RECURSIVE MetricsLoop_SkipUnknown(_, _, _)
\* a loop that leaves out the metrics that have no threshold
MetricsLoop_SkipUnknown(metrics, i, results) ==
    IF i > Len(metrics) THEN results
    ELSE LET check_result == check_threshold(metrics[i].k, metrics[i].v)
             appended == [results EXCEPT !.checks = Append(@, check_result)]
         IN  MetricsLoop_SkipUnknown(metrics, i + 1,
                 IF check_result.status = "unknown" THEN results
                 ELSE IF check_result.status = "critical"
                 THEN [appended EXCEPT !.critical_count = @ + 1, !.all_ok = FALSE]
                 ELSE IF check_result.status = "warning"
                 THEN [appended EXCEPT !.warning_count = @ + 1]
                 ELSE appended)

RECURSIVE MetricsLoop(_, _, _)
\* the for loop of check_all_metrics over metrics.items()[i..]
MetricsLoop(metrics, i, results) ==
    IF i > Len(metrics) THEN results
    ELSE LET check_result == check_threshold(metrics[i].k, metrics[i].v)
             appended == [results EXCEPT !.checks = Append(@, check_result)]
         IN  MetricsLoop(metrics, i + 1,
                 IF check_result.status = "critical"
                 THEN [appended EXCEPT !.critical_count = @ + 1, !.all_ok = FALSE]
                 ELSE IF check_result.status = "warning"
                 THEN [appended EXCEPT !.warning_count = @ + 1]
                 ELSE appended)

check_all_metrics(metrics) ==
    MetricsLoop(metrics, 1, [checks |-> <<>>, critical_count |-> 0,
                             warning_count |-> 0, all_ok |-> TRUE])

\* a score that is None, or whose key is not in evaluations
NoScore == -1

\* extract_performance_metrics: the metrics dict in the order of insertion,
\* values in thousandths; word_count is the number of words
extract_performance_metrics(processing_time, word_count, h_score, consensus, confidence) ==
    LET base == <<[k |-> "response_latency", v |-> processing_time],
                  [k |-> "confidence_score", v |-> confidence],
                  [k |-> "word_count", v |-> word_count * 1000]>>
        with_h == IF h_score # NoScore
                  THEN Append(base, [k |-> "hallucination_score", v |-> h_score])
                  ELSE base
    IN  IF consensus # NoScore
        THEN Append(with_h, [k |-> "council_consensus", v |-> consensus])
        ELSE with_h

-----------------------------------------------------------------------------
(* evaluators.py *)

\* the limit of the word count check of evaluate_response_quality
EVALUATION_WORD_LIMIT == 50

\* evaluate_council_consensus: consensus_score, the share of the votes that
\* carry the most common urgency, in thousandths; None with fewer than two
\* votes
consensus_score(council_votes) ==
    IF Len(council_votes) < 2 THEN NoScore
    ELSE LET urgencies == [i \in 1..Len(council_votes) |-> council_votes[i].v.urgency]
             Count(u) == Cardinality({i \in 1..Len(urgencies) : urgencies[i] = u})
             most == CHOOSE u \in {urgencies[i] : i \in 1..Len(urgencies)} :
                        \A i \in 1..Len(urgencies) : Count(urgencies[i]) <= Count(u)
         IN  (Count(most) * 1000) \div Len(urgencies)

-----------------------------------------------------------------------------
(* council.py *)

\* a NotRequired key of ConsultationState that is not set
Absent == <<"<absent>">>

\* initial_state of MedicalCouncil.consult
InitialState(text, image, patient_id) ==
    [text |-> text, image |-> image, patient_id |-> patient_id,
     route |-> "fast", responses |-> <<>>, votes |-> <<>>,
     final_response |-> <<>>, urgency |-> "MEDIUM", confidence |-> 500,
     experiment_variants |-> <<>>,
     retrieved_context |-> Absent, failed_models |-> Absent]

\* step: how many try blocks of the node have run
NoLocals == [step |-> 0, responses |-> <<>>, votes |-> <<>>, failed_models |-> <<>>,
             final_content |-> None]

\* any(keyword in text.lower() for keyword in config.HIGH_STAKES_KEYWORDS)
IsHighStakes_NoLower(text) == ContainsAny(text, HIGH_STAKES_KEYWORDS)

IsHighStakes(text) == ContainsAny(Lower(text), HIGH_STAKES_KEYWORDS)

\* MedicalCouncil.orchestrator: the state it returns, or the exception it raises
orchestrator(s, hashes) ==
    LET text == s.text
        has_image == s.image # NoImage
        prompt_variant == get_variant("prompt_style", s.patient_id, hashes)
        s1 == [s EXCEPT !.experiment_variants =
                            DictSet(@, "prompt_style", prompt_variant)]
    IN  IF text = None
        THEN [raised |-> "AttributeError", state |-> s1]
        ELSE [raised |-> "",
              state |-> [s1 EXCEPT !.route =
                            IF has_image \/ IsHighStakes(text)
                            THEN "council" ELSE "fast"]]

\* _build_graph.route_decision
route_decision(s) ==
    IF s.route = "fast" THEN "fast_path"
    ELSE IF s.route = "visual" THEN "visual_path"
    ELSE "council_debate"

\* the three council experts in the order council_debate invokes them:
\* responses/votes key, name in failed_models, vote
COUNCIL_EXPERTS == <<
    [key |-> "gpt4", name |-> "GPT-4o",
     vote |-> [urgency |-> "HIGH", confidence |-> 900, model |-> "GPT-4o"]],
    [key |-> "claude", name |-> "Claude",
     vote |-> [urgency |-> "HIGH", confidence |-> 920, model |-> "Claude Sonnet 4"]],
    [key |-> "gemini", name |-> "Gemini",
     vote |-> [urgency |-> "HIGH", confidence |-> 880, model |-> "Gemini 2.0 Flash"]] >>

\* synthesis_models of synthesize
SYNTHESIS_MODELS == <<"GPT-4o", "Claude", "Gemini">>

STATIC_FALLBACK == <<"U","n","a","b","l","e"," ","t","o"," ","p","r","o","v","i","d","e"," ","a","s","s","e","s","s","m","e","n","t","."," ","P","l","e","a","s","e"," ","c","o","n","s","u","l","t"," ","a"," ","h","e","a","l","t","h","c","a","r","e"," ","p","r","o","v","i","d","e","r",".">>

\* urgency_levels.get(x, 2)
UrgencyRank(x) ==
    CASE x = "LOW" -> 1
      [] x = "MEDIUM" -> 2
      [] x = "HIGH" -> 3
      [] x = "EMERGENCY" -> 4
      [] OTHER -> 2

\* v.get("urgency", "MEDIUM"), v.get("confidence", 0.5)
VoteUrgency(v) == IF "urgency" \in DOMAIN v THEN v.urgency ELSE "MEDIUM"
VoteConfidence(v) == IF "confidence" \in DOMAIN v THEN v.confidence ELSE 500

\* a wrong merge: the urgency of the first vote
MaxUrgency_First(votes) ==
    IF votes = <<>> THEN "MEDIUM" ELSE VoteUrgency(votes[1].v)

\* max(urgencies, key=...) if urgencies else "MEDIUM": the first of the
\* urgencies of highest rank, in the order of votes.values()
MaxUrgency(votes) ==
    IF votes = <<>> THEN "MEDIUM"
    ELSE LET urgencies == [i \in 1..Len(votes) |-> VoteUrgency(votes[i].v)]
             best == CHOOSE i \in 1..Len(urgencies) :
                        /\ \A j \in 1..Len(urgencies) :
                              UrgencyRank(urgencies[j]) <= UrgencyRank(urgencies[i])
                        /\ \A j \in 1..(i - 1) :
                              UrgencyRank(urgencies[j]) < UrgencyRank(urgencies[i])
         IN  urgencies[best]

RECURSIVE SumSeq(_)
SumSeq(q) == IF q = <<>> THEN 0 ELSE Head(q) + SumSeq(Tail(q))

\* a rounding that drops the digits after the third
Round3_Floor(total, n) == total \div n

\* round(total / n, 3) in thousandths
Round3(total, n) ==
    LET q == total \div n
        r == total % n
    IN  IF 2 * r > n THEN q + 1
        ELSE IF 2 * r < n THEN q
        ELSE IF q % 2 = 0 THEN q ELSE q + 1

\* round(sum(confidences) / len(confidences) if confidences else 0.5, 3)
AvgConfidence(votes) ==
    IF votes = <<>> THEN 500
    ELSE Round3(SumSeq([i \in 1..Len(votes) |-> VoteConfidence(votes[i].v)]),
                Len(votes))

\* a fallback that takes the last opinion
FallbackContent_Last(responses) ==
    IF responses # <<>> THEN DictValues(responses)[Len(responses)] ELSE STATIC_FALLBACK

\* the fallback of synthesize when no backend gave a text
FallbackContent(responses) ==
    IF responses # <<>> THEN DictValues(responses)[1] ELSE STATIC_FALLBACK

-----------------------------------------------------------------------------
(* Inputs the environment can supply *)

T_MILD == <<"m","i","l","d"," ","h","e","a","d","a","c","h","e">>
T_CHEST == <<"I"," ","h","a","v","e"," ","C","h","e","s","t"," ","P","a","i","n">>
T_HEATSTROKE == <<"h","e","a","t","s","t","r","o","k","e">>

\* request.text: absent, empty or a text
RequestTexts == {None, <<>>, T_MILD, T_CHEST}
\* request.image: absent, empty or base64 data
RequestImages == {NoImage, "", "iVBORw0KGgo="}
PatientIds == {"P12345"}
\* values of hash(...) % 100 on either side of the variant thresholds
HashBuckets == {69, 70}

R_ANGINA == <<"L","i","k","e","l","y"," ","a","n","g","i","n","a","."," ","U","r","g","e","n","c","y",":"," ","H","I","G","H","."," ","0",".","8">>
R_CALL == <<"U","r","g","e","n","c","y"," ","H","I","G","H",":"," ","c","a","l","l"," ","9","1","1"," ","n","o","w">>
W_OK == <<"o","k">>

\* content an expert can answer with
ExpertContents == {<<>>, R_ANGINA}
\* content a synthesis backend can answer with: empty, short, and one word
\* over the guardrail limit
SynthContents == {<<>>, R_CALL, Words(W_OK, DEFAULT_MAX_WORDS + 1)}

CTX == <<"R","e","f","e","r","e","n","c","e"," ","1">>

-----------------------------------------------------------------------------
(* main.py: POST /consult, and the council nodes it runs *)

NoBody == [response |-> <<>>, urgency |-> "", confidence |-> 0,
           council_votes |-> <<>>, route_taken |-> ""]
NoHttp == [status |-> 0, detail |-> "", body |-> NoBody]
NoRequest == [text |-> None, image |-> NoImage, patient_id |-> ""]
NoGuardrails == [all_passed |-> TRUE, warnings |-> <<>>, checks |-> <<>>]
NoEvaluations == [hallucination |-> "", word_count |-> 0, within_limit |-> TRUE,
                  has_urgency_level |-> FALSE, is_aligned |-> FALSE,
                  council_used |-> FALSE,
                  performance |-> [metrics |-> <<>>,
                                   threshold_results |-> check_all_metrics(<<>>)]]
NoCall == [fn |-> ""]

\* nothing of a request is held
NoRequestInFlight ==
    /\ request = NoRequest
    /\ formatted_text = None
    /\ state = InitialState(None, NoImage, "")
    /\ locals = NoLocals
    /\ invocations = <<>>
    /\ image_storage = FALSE
    /\ guardrail_results = NoGuardrails
    /\ evaluations = NoEvaluations
    /\ stored = FALSE
    /\ dataset_logged = FALSE
    /\ span_logged = FALSE
    /\ http = NoHttp

\* the endpoint waits for a request
Idle == pc = "idle" /\ NoRequestInFlight

\* except Exception in main.consult: HTTP 500
Raise500(detail) ==
    /\ pc' = "done"
    /\ http' = [status |-> 500, detail |-> detail, body |-> NoBody]

\* an endpoint without the input validation
ConsultBegin_NoValidation(text, image, patient_id) ==
    /\ pc = "idle"
    /\ request' = [text |-> text, image |-> image, patient_id |-> patient_id]
    /\ formatted_text' = IF Truthy(text) THEN text ELSE None
    /\ pc' = "council_consult"
    /\ UNCHANGED <<str_hash, http, state, locals, invocations, image_storage,
                   guardrail_results, evaluations, stored, dataset_logged,
                   span_logged, call, ret>>

\* main.consult up to the call of medical_council.consult
ConsultBegin(text, image, patient_id) ==
    /\ pc = "idle"
    /\ request' = [text |-> text, image |-> image, patient_id |-> patient_id]
    /\ IF ~Truthy(text) /\ image \in {NoImage, ""}
       THEN /\ pc' = "done"
            /\ http' = [status |-> 400,
                        detail |-> "Either text or image must be provided",
                        body |-> NoBody]
            /\ UNCHANGED formatted_text
       ELSE /\ formatted_text' = IF Truthy(text) THEN text ELSE None
            /\ pc' = "council_consult"
            /\ UNCHANGED http
    /\ UNCHANGED <<str_hash, state, locals, invocations, image_storage,
                   guardrail_results, evaluations, stored, dataset_logged, span_logged, call, ret>>

\* MedicalCouncil.consult up to graph.invoke: the upload to Spaces gives
\* metadata (uploaded) or None (no client, upload failed)
CouncilConsult(uploaded) ==
    /\ pc = "council_consult"
    /\ image_storage' = (request.image \notin {NoImage, ""} /\ uploaded)
    /\ state' = InitialState(formatted_text, request.image, request.patient_id)
    /\ pc' = "orchestrator"
    /\ UNCHANGED <<str_hash, request, formatted_text, locals, invocations,
                   guardrail_results, evaluations, stored, dataset_logged, span_logged, http,
                   call, ret>>

Orchestrator ==
    /\ pc = "orchestrator"
    /\ LET r == orchestrator(state, str_hash)
       IN  /\ state' = r.state
           /\ IF r.raised # ""
              THEN Raise500(r.raised)
              ELSE pc' = "retrieve_knowledge" /\ UNCHANGED http
    /\ UNCHANGED <<str_hash, request, formatted_text, locals, invocations,
                   image_storage, guardrail_results, evaluations, stored,
                   dataset_logged, span_logged, call, ret>>

\* MedicalCouncil.retrieve_knowledge; outcome of the embedding and the search:
\* documents, none, or an exception
RetrieveKnowledge(outcome) ==
    /\ pc = "retrieve_knowledge"
    /\ LET s1 == [state EXCEPT !.retrieved_context =
                     IF ~Truthy(state.text) THEN None
                     ELSE IF outcome = "docs" THEN CTX
                     ELSE None]
       IN  /\ state' = s1
           /\ pc' = route_decision(s1)
    /\ locals' = NoLocals
    /\ UNCHANGED <<str_hash, request, formatted_text, invocations,
                   image_storage, guardrail_results, evaluations, stored,
                   dataset_logged, span_logged, http, call, ret>>

\* retrieve_knowledge when the search has not finished after 10 seconds:
\* future.result raises TimeoutError inside the with block, whose exit shuts the
\* executor down with wait=True, that is, joins the thread running the search
RetrieveTimeout ==
    /\ pc = "retrieve_knowledge"
    /\ Truthy(state.text)
    /\ pc' = "executor_shutdown"
    /\ UNCHANGED <<str_hash, request, formatted_text, state, locals, invocations,
                   image_storage, guardrail_results, evaluations, stored,
                   dataset_logged, span_logged, http, call, ret>>

\* the thread running the search ends: the shutdown returns, the TimeoutError
\* reaches the except block, and retrieve_knowledge returns without context
SearchThreadEnds ==
    /\ pc = "executor_shutdown"
    /\ LET s1 == [state EXCEPT !.retrieved_context = None]
       IN  /\ state' = s1
           /\ pc' = route_decision(s1)
    /\ locals' = NoLocals
    /\ UNCHANGED <<str_hash, request, formatted_text, invocations,
                   image_storage, guardrail_results, evaluations, stored,
                   dataset_logged, span_logged, http, call, ret>>

Invoked(node, model, ok) == [node |-> node, model |-> model, ok |-> ok]

\* MedicalCouncil.fast_path: gpt4.invoke answers with content, or raises
FastPath(ok, content) ==
    /\ pc = "fast_path"
    /\ invocations' = Append(invocations, Invoked("fast_path", "GPT-4o", ok))
    /\ IF ok
       THEN /\ state' = [state EXCEPT
                            !.responses = <<[k |-> "gpt4", v |-> content]>>,
                            !.votes = <<[k |-> "gpt4",
                                         v |-> [urgency |-> "MEDIUM",
                                                confidence |-> 850]]>>]
            /\ pc' = "synthesize"
            /\ UNCHANGED http
       ELSE /\ Raise500("fast_path: gpt4.invoke raised")
            /\ UNCHANGED state
    /\ locals' = NoLocals
    /\ UNCHANGED <<str_hash, request, formatted_text,
                   image_storage, guardrail_results, evaluations, stored,
                   dataset_logged, span_logged, call, ret>>

\* MedicalCouncil.council_debate, one try block: expert i is invoked and
\* answers with content, or raises and is appended to failed_models
CouncilInvoke_Abort(i, ok, content) ==
    /\ pc = "council_debate"
    /\ locals.step = i - 1
    /\ invocations' = Append(invocations,
                             Invoked("council_debate", COUNCIL_EXPERTS[i].name, ok))
    /\ IF ok
       THEN /\ locals' = [locals EXCEPT
                   !.step = i,
                   !.responses = DictSet(@, COUNCIL_EXPERTS[i].key, content),
                   !.votes = DictSet(@, COUNCIL_EXPERTS[i].key, COUNCIL_EXPERTS[i].vote)]
            /\ UNCHANGED <<pc, http>>
       ELSE /\ Raise500("council_debate: invoke raised")
            /\ UNCHANGED locals
    /\ UNCHANGED <<str_hash, request, formatted_text, state,
                   image_storage, guardrail_results, evaluations, stored,
                   dataset_logged, span_logged, call, ret>>

CouncilInvoke(i, ok, content) ==
    /\ pc = "council_debate"
    /\ locals.step = i - 1
    /\ invocations' = Append(invocations,
                             Invoked("council_debate", COUNCIL_EXPERTS[i].name, ok))
    /\ locals' = IF ok
                 THEN [locals EXCEPT
                          !.step = i,
                          !.responses = DictSet(@, COUNCIL_EXPERTS[i].key, content),
                          !.votes = DictSet(@, COUNCIL_EXPERTS[i].key,
                                            COUNCIL_EXPERTS[i].vote)]
                 ELSE [locals EXCEPT
                          !.step = i,
                          !.failed_models = Append(@, COUNCIL_EXPERTS[i].name)]
    /\ UNCHANGED <<pc, str_hash, request, formatted_text, state,
                   image_storage, guardrail_results, evaluations, stored,
                   dataset_logged, span_logged, http, call, ret>>

\* council_debate after the three try blocks: raise when no expert answered,
\* else publish responses, votes and failed_models
CouncilFinish_NoRaise ==
    /\ pc = "council_debate"
    /\ locals.step = Len(COUNCIL_EXPERTS)
    /\ state' = [state EXCEPT !.responses = locals.responses,
                              !.votes = locals.votes,
                              !.failed_models = locals.failed_models]
    /\ pc' = "synthesize"
    /\ locals' = NoLocals
    /\ UNCHANGED <<str_hash, request, formatted_text, invocations,
                   image_storage, guardrail_results, evaluations, stored,
                   dataset_logged, span_logged, http, call, ret>>

CouncilFinish ==
    /\ pc = "council_debate"
    /\ locals.step = Len(COUNCIL_EXPERTS)
    /\ IF locals.responses = <<>>
       THEN /\ Raise500("All LLM models failed. Cannot provide consultation.")
            /\ UNCHANGED state
       ELSE /\ state' = [state EXCEPT !.responses = locals.responses,
                                      !.votes = locals.votes,
                                      !.failed_models = locals.failed_models]
            /\ pc' = "synthesize"
            /\ UNCHANGED http
    /\ locals' = NoLocals
    /\ UNCHANGED <<str_hash, request, formatted_text, invocations,
                   image_storage, guardrail_results, evaluations, stored,
                   dataset_logged, span_logged, call, ret>>

\* a loop that goes on to the next backend after one has answered
SynthesizeInvoke_NoBreak(i, ok, content) ==
    /\ pc = "synthesize"
    /\ locals.step = i - 1
    /\ invocations' = Append(invocations, Invoked("synthesize", SYNTHESIS_MODELS[i], ok))
    /\ locals' = IF ok
                 THEN [locals EXCEPT !.final_content = content, !.step = i]
                 ELSE [locals EXCEPT !.step = i]
    /\ UNCHANGED <<pc, str_hash, request, formatted_text, state,
                   image_storage, guardrail_results, evaluations, stored,
                   dataset_logged, span_logged, http, call, ret>>

\* synthesize, one pass of the loop over synthesis_models: backend i answers
\* with content (break) or raises (continue)
SynthesizeInvoke(i, ok, content) ==
    /\ pc = "synthesize"
    /\ locals.step = i - 1
    /\ invocations' = Append(invocations, Invoked("synthesize", SYNTHESIS_MODELS[i], ok))
    /\ locals' = IF ok
                 THEN [locals EXCEPT !.final_content = content,
                                     !.step = Len(SYNTHESIS_MODELS)]
                 ELSE [locals EXCEPT !.step = i]
    /\ UNCHANGED <<pc, str_hash, request, formatted_text, state,
                   image_storage, guardrail_results, evaluations, stored,
                   dataset_logged, span_logged, http, call, ret>>

\* a synthesize that leaves the urgency of the initial state in place
SynthesizeFinish_KeepUrgency ==
    /\ pc = "synthesize"
    /\ locals.step = Len(SYNTHESIS_MODELS)
    /\ LET final_content == IF ~Truthy(locals.final_content)
                            THEN FallbackContent(state.responses)
                            ELSE locals.final_content
       IN  state' = [state EXCEPT !.final_response = final_content,
                                  !.confidence = AvgConfidence(state.votes)]
    /\ pc' = "guardrails"
    /\ UNCHANGED <<str_hash, request, formatted_text, locals, invocations,
                   image_storage, guardrail_results, evaluations, stored,
                   dataset_logged, span_logged, http, call, ret>>

\* a synthesize that falls back only when no backend returned
SynthesizeFinish_NoneOnly ==
    /\ pc = "synthesize"
    /\ locals.step = Len(SYNTHESIS_MODELS)
    /\ LET final_content == IF locals.final_content = None
                            THEN FallbackContent(state.responses)
                            ELSE locals.final_content
       IN  state' = [state EXCEPT !.final_response = final_content,
                                  !.urgency = MaxUrgency(state.votes),
                                  !.confidence = AvgConfidence(state.votes)]
    /\ pc' = "guardrails"
    /\ UNCHANGED <<str_hash, request, formatted_text, locals, invocations,
                   image_storage, guardrail_results, evaluations, stored,
                   dataset_logged, span_logged, http, call, ret>>

\* synthesize after the loop: fallback text, confidence, urgency
SynthesizeFinish ==
    /\ pc = "synthesize"
    /\ locals.step = Len(SYNTHESIS_MODELS)
    /\ LET final_content == IF ~Truthy(locals.final_content)
                            THEN FallbackContent(state.responses)
                            ELSE locals.final_content
       IN  state' = [state EXCEPT !.final_response = final_content,
                                  !.urgency = MaxUrgency(state.votes),
                                  !.confidence = AvgConfidence(state.votes)]
    /\ pc' = "guardrails"
    /\ UNCHANGED <<str_hash, request, formatted_text, locals, invocations,
                   image_storage, guardrail_results, evaluations, stored,
                   dataset_logged, span_logged, http, call, ret>>

\* what MedicalCouncil.consult returns
ConsultResult(s) ==
    [response |-> s.final_response, urgency |-> s.urgency,
     confidence |-> s.confidence, council_votes |-> s.votes,
     route_taken |-> s.route]

IMAGE_CONSULTATION == <<"I","m","a","g","e"," ","c","o","n","s","u","l","t","a","t","i","o","n">>

\* formatted_text or "Image consultation"
PatientInput(text) == IF Truthy(text) THEN text ELSE IMAGE_CONSULTATION

\* main.consult: run_all_guardrails and the gate on all_passed; the gate reads
\* guardrail_results['blocked_reason'], a key run_all_guardrails never sets
Guardrails ==
    /\ pc = "guardrails"
    /\ LET result == ConsultResult(state)
           g == run_all_guardrails(PatientInput(formatted_text), result.response,
                                   result.urgency, result.route_taken)
       IN  /\ guardrail_results' = g
           /\ IF ~g.all_passed
              THEN IF "blocked_reason" \in DOMAIN g
                   THEN /\ pc' = "done"
                        /\ http' = [status |-> 400,
                                    detail |-> "Response blocked by guardrails",
                                    body |-> NoBody]
                   ELSE Raise500("KeyError: 'blocked_reason'")
              ELSE pc' = "evaluate" /\ UNCHANGED http
    /\ UNCHANGED <<str_hash, request, formatted_text, state, locals,
                   invocations, image_storage, evaluations, stored,
                   dataset_logged, span_logged, call, ret>>

\* what evaluate_hallucination returns: the scorer's label and score, or, when
\* the scorer fails, the label "error" and no score
HallucinationResults ==
    {[label |-> "factual", hallucination_score |-> 0],
     [label |-> "hallucinated", hallucination_score |-> 1000],
     [label |-> "error", hallucination_score |-> NoScore]}

\* processing_time of a request, in thousandths of a second
ProcessingTimes == {2340, 12500}

\* evaluate_response_quality, evaluations["performance"]: the evaluation
\* report of the request in flight (the hallucination scorer gives a label and
\* a score, or fails and the label is "error")
EvaluationReport(hallucination, processing_time) ==
    LET result == ConsultResult(state)
        patient_input == PatientInput(formatted_text)
        word_count == WordCount(result.response)
        has_emergency_keywords == ContainsAny(Lower(patient_input), HIGH_STAKES_KEYWORDS)
        consensus == IF result.route_taken = "council" /\ result.council_votes # <<>>
                     THEN consensus_score(result.council_votes)
                     ELSE NoScore
        performance_metrics ==
            extract_performance_metrics(processing_time, word_count,
                                        hallucination.hallucination_score,
                                        consensus, result.confidence)
    IN  [hallucination |-> hallucination.label,
         word_count |-> word_count,
         within_limit |-> (word_count <= EVALUATION_WORD_LIMIT),
         has_urgency_level |-> ContainsAny(Upper(result.response), URGENCY_LEVELS),
         is_aligned |-> IF has_emergency_keywords
                        THEN result.urgency \in {"HIGH", "EMERGENCY"}
                        ELSE result.urgency \in {"LOW", "MEDIUM"},
         council_used |-> (result.route_taken = "council"),
         performance |-> [metrics |-> performance_metrics,
                          threshold_results |-> check_all_metrics(performance_metrics)]]

\* a handler that refuses to answer when a threshold is critical
EvaluateAndRespond_Blocking(hallucination, processing_time, span_ok, store_ok, dataset_ok) ==
    /\ pc = "evaluate"
    /\ evaluations' = EvaluationReport(hallucination, processing_time)
    /\ IF evaluations'.performance.threshold_results.all_ok
       THEN /\ http' = [status |-> 200, detail |-> "", body |-> ConsultResult(state)]
            /\ span_logged' = span_ok
            /\ stored' = store_ok
            /\ dataset_logged' = dataset_ok
       ELSE /\ http' = [status |-> 500, detail |-> "critical performance alerts",
                        body |-> NoBody]
            /\ UNCHANGED <<span_logged, stored, dataset_logged>>
    /\ pc' = "done"
    /\ UNCHANGED <<str_hash, request, formatted_text, state, locals,
                   invocations, image_storage, guardrail_results, call, ret>>

\* main.consult after the gate: evaluate_response_quality, the performance
\* thresholds (whose alerts are only printed), log_evaluation_to_span (which
\* catches its own exceptions), store_consultation and log_consultation_async,
\* each inside its own try block, and the ConsultationResponse
EvaluateAndRespond(hallucination, processing_time, span_ok, store_ok, dataset_ok) ==
    /\ pc = "evaluate"
    /\ evaluations' = EvaluationReport(hallucination, processing_time)
    /\ http' = [status |-> 200, detail |-> "", body |-> ConsultResult(state)]
    /\ span_logged' = span_ok
    /\ stored' = store_ok
    /\ dataset_logged' = dataset_ok
    /\ pc' = "done"
    /\ UNCHANGED <<str_hash, request, formatted_text, state, locals,
                   invocations, image_storage, guardrail_results, call, ret>>

\* the process takes the next request
NextRequest ==
    /\ pc = "done"
    /\ pc' = "idle"
    /\ request' = NoRequest
    /\ formatted_text' = None
    /\ state' = InitialState(None, NoImage, "")
    /\ locals' = NoLocals
    /\ invocations' = <<>>
    /\ image_storage' = FALSE
    /\ guardrail_results' = NoGuardrails
    /\ evaluations' = NoEvaluations
    /\ stored' = FALSE
    /\ dataset_logged' = FALSE
    /\ span_logged' = FALSE
    /\ http' = NoHttp
    /\ UNCHANGED <<str_hash, call, ret>>

HashKeys == {<<"prompt_style", p>> : p \in PatientIds}

Init ==
    /\ Idle
    /\ str_hash \in [HashKeys -> HashBuckets]
    /\ call = NoCall
    /\ ret = <<>>

Next ==
    \/ \E t \in RequestTexts, im \in RequestImages, p \in PatientIds :
          ConsultBegin(t, im, p)
    \/ \E uploaded \in BOOLEAN : CouncilConsult(uploaded)
    \/ Orchestrator
    \/ \E outcome \in {"docs", "empty", "error"} : RetrieveKnowledge(outcome)
    \/ RetrieveTimeout
    \/ SearchThreadEnds
    \/ \E ok \in BOOLEAN, c \in ExpertContents : FastPath(ok, c)
    \/ \E i \in 1..Len(COUNCIL_EXPERTS), ok \in BOOLEAN, c \in ExpertContents :
          CouncilInvoke(i, ok, c)
    \/ CouncilFinish
    \/ \E i \in 1..Len(SYNTHESIS_MODELS), ok \in BOOLEAN, c \in SynthContents :
          SynthesizeInvoke(i, ok, c)
    \/ SynthesizeFinish
    \/ Guardrails
    \/ \E h \in HallucinationResults, t \in ProcessingTimes, span_ok \in BOOLEAN,
          store_ok \in BOOLEAN, dataset_ok \in BOOLEAN :
          EvaluateAndRespond(h, t, span_ok, store_ok, dataset_ok)
    \/ NextRequest

Spec == Init /\ [][Next]_vars

\* the steps the handler takes by itself, without waiting for an answer from
\* outside: the next request arriving, an LLM client or the search returning
\* or raising are not among them
HandlerStep ==
    \/ \E uploaded \in BOOLEAN : CouncilConsult(uploaded)
    \/ Orchestrator
    \/ RetrieveTimeout
    \/ CouncilFinish
    \/ SynthesizeFinish
    \/ Guardrails
    \/ \E h \in HallucinationResults, t \in ProcessingTimes, span_ok \in BOOLEAN,
          store_ok \in BOOLEAN, dataset_ok \in BOOLEAN :
          EvaluateAndRespond(h, t, span_ok, store_ok, dataset_ok)

\* the pipeline with a handler that keeps running: whenever a step of its own
\* stays possible it takes one
SpecLive == Init /\ [][Next]_vars /\ WF_vars(HandlerStep)

-----------------------------------------------------------------------------
(* run_all_guardrails called directly, on any arguments *)

P_EMERGENCY == <<"E","M","E","R","G","E","N","C","Y"," ">>
P_HOSPITAL == <<"E","m","e","r","g","e","n","c","y",":"," ","g","o"," ","t","o"," ","h","o","s","p","i","t","a","l"," ">>
P_LOW == <<"u","r","g","e","n","c","y"," ","l","o","w",","," ","r","e","s","t"," ">>
P_REST == <<"r","e","s","t"," ">>
P_CALL == <<"c","a","l","l"," "," ","9","1","1","\n">>

\* the start of a response, with the number of words in it
GuardPrefixes == {[text |-> <<>>, words |-> 0], [text |-> P_EMERGENCY, words |-> 1],
                  [text |-> P_HOSPITAL, words |-> 4], [text |-> P_LOW, words |-> 3],
                  [text |-> P_REST, words |-> 1], [text |-> P_CALL, words |-> 2]}
\* how many filler words follow it: none, or enough to reach the word limit
\* from either side
GuardFills == {0} \cup ((DEFAULT_MAX_WORDS - 5)..(DEFAULT_MAX_WORDS + MaxOver))

GuardCalls ==
    {[fn |-> "run_all_guardrails",
      patient_input |-> t,
      response |-> pre.text \o Words(W_OK, n),
      words |-> pre.words + n,
      urgency |-> u,
      route |-> r] :
        t \in {T_MILD, T_CHEST, IMAGE_CONSULTATION},
        pre \in GuardPrefixes, n \in GuardFills,
        u \in {"LOW", "MEDIUM", "HIGH", "EMERGENCY"},
        r \in {"fast", "visual", "council"}}

GuardInit ==
    /\ pc = "call"
    /\ NoRequestInFlight
    /\ str_hash \in [HashKeys -> {0}]
    /\ call \in GuardCalls
    /\ ret = NoGuardrails

GuardCall ==
    /\ pc = "call"
    /\ ret' = run_all_guardrails(call.patient_input, call.response, call.urgency,
                                 call.route)
    /\ pc' = "return"
    /\ UNCHANGED <<str_hash, request, formatted_text, state, locals, invocations,
                   image_storage, guardrail_results, evaluations, stored,
                   dataset_logged, span_logged, http, call>>

GuardNext == GuardCall

SpecGuard == GuardInit /\ [][GuardNext]_vars

-----------------------------------------------------------------------------
(* The orchestrator node run on any state, time after time *)

T_STROKE_UPPER == <<"S","T","R","O","K","E">>
T_CHEST_GAP == <<"c","h","e","s","t"," "," ","p","a","i","n">>

RouterTexts == {None, <<>>, T_MILD, T_CHEST, T_HEATSTROKE, T_STROKE_UPPER, T_CHEST_GAP}

NoDecision == [seen |-> FALSE, text |-> None, image |-> NoImage, route |-> ""]

RouterInit ==
    /\ pc = "done"
    /\ NoRequestInFlight
    /\ str_hash \in [HashKeys -> HashBuckets]
    /\ call = NoCall
    /\ ret = NoDecision

\* the node is entered with a state of the caller's choice; ret keeps the
\* decision the node made the time before
RouterEnter(text, image, patient_id) ==
    /\ pc \in {"retrieve_knowledge", "done"}
    /\ ret' = IF pc = "retrieve_knowledge"
              THEN [seen |-> TRUE, text |-> state.text, image |-> state.image,
                    route |-> state.route]
              ELSE ret
    /\ state' = InitialState(text, image, patient_id)
    /\ pc' = "orchestrator"
    /\ http' = NoHttp
    /\ UNCHANGED <<str_hash, request, formatted_text, locals, invocations,
                   image_storage, guardrail_results, evaluations, stored,
                   dataset_logged, span_logged, call>>

RouterNext ==
    \/ \E t \in RouterTexts, im \in RequestImages, p \in PatientIds :
          RouterEnter(t, im, p)
    \/ Orchestrator

SpecRouter == RouterInit /\ [][RouterNext]_vars

-----------------------------------------------------------------------------
(* The synthesize node run on any opinions *)

VoteKeys == {"gpt4", "claude", "gemini"}
Urgencies == {"LOW", "MEDIUM", "HIGH", "EMERGENCY"}
\* confidences an opinion can carry, in thousandths
Confidences == {300, 900}

\* position of a key in the order the nodes insert it into responses and votes
KeyIndex(k) == CHOOSE i \in 1..Len(COUNCIL_EXPERTS) : COUNCIL_EXPERTS[i].key = k

\* every votes dict over VoteKeys, its keys in the order of insertion
AnyVotes ==
    UNION {{q \in [1..n -> [k : VoteKeys,
                            v : [urgency : Urgencies, confidence : Confidences]]] :
              \A i, j \in 1..n : i < j => KeyIndex(q[i].k) < KeyIndex(q[j].k)} :
           n \in 0..Cardinality(VoteKeys)}

\* the text of each expert's opinion
ExpertText(k) ==
    CASE k = "gpt4" -> R_ANGINA
      [] k = "claude" -> P_LOW
      [] k = "gemini" -> W_OK

\* responses with the keys of votes, in the same order
ResponsesOf(votes) ==
    [i \in 1..Len(votes) |-> [k |-> votes[i].k, v |-> ExpertText(votes[i].k)]]

SynthInit ==
    /\ pc = "synthesize"
    /\ request = NoRequest
    /\ formatted_text = None
    /\ \E votes \in AnyVotes :
          state = [InitialState(T_MILD, NoImage, "P12345") EXCEPT
                      !.route = "council", !.votes = votes,
                      !.responses = ResponsesOf(votes)]
    /\ locals = NoLocals
    /\ invocations = <<>>
    /\ image_storage = FALSE
    /\ guardrail_results = NoGuardrails
    /\ evaluations = NoEvaluations
    /\ stored = FALSE
    /\ dataset_logged = FALSE
    /\ span_logged = FALSE
    /\ http = NoHttp
    /\ str_hash \in [HashKeys -> {0}]
    /\ call = NoCall
    /\ ret = <<>>

\* texts a synthesis backend answers with: the empty text, a text of its own,
\* or the text of GPT-4o's opinion repeated word for word
SynthAnswers == {<<>>, R_CALL, R_ANGINA}

\* the node is entered a second time with the same opinions; ret keeps the
\* state the first run returned and whether every backend had raised in it
SynthAgain ==
    /\ pc = "guardrails"
    /\ ret = <<>>
    /\ ret' = <<[state |-> state,
                 all_failed |-> \A i \in 1..Len(invocations) : ~invocations[i].ok]>>
    /\ state' = [state EXCEPT
                    !.final_response = InitialState(T_MILD, NoImage, "P12345").final_response,
                    !.urgency = InitialState(T_MILD, NoImage, "P12345").urgency,
                    !.confidence = InitialState(T_MILD, NoImage, "P12345").confidence]
    /\ pc' = "synthesize"
    /\ locals' = NoLocals
    /\ invocations' = <<>>
    /\ UNCHANGED <<str_hash, request, formatted_text,
                   image_storage, guardrail_results, evaluations, stored,
                   dataset_logged, span_logged, http, call>>

SynthNext ==
    \/ \E i \in 1..Len(SYNTHESIS_MODELS), ok \in BOOLEAN, c \in SynthAnswers :
          SynthesizeInvoke(i, ok, c)
    \/ SynthesizeFinish
    \/ SynthAgain

SpecSynth == SynthInit /\ [][SynthNext]_vars

-----------------------------------------------------------------------------
(* Properties *)

\* the LLM calls a node made for the request, in order
CallsOf(node) ==
    LET InNode(c) == c.node = node
    IN  SelectSeq(invocations, InNode)

\* the council experts of calls that answered, and the names of those that
\* raised, in order
AnsweredKeys(calls) ==
    {COUNCIL_EXPERTS[i].key : i \in {j \in 1..Len(calls) : calls[j].ok}}
FailedNames(calls) ==
    LET Failed(c) == ~c.ok
        failed == SelectSeq(calls, Failed)
    IN  [i \in 1..Len(failed) |-> failed[i].model]

\* C1: in council_debate the experts are invoked in the order GPT-4o, Claude,
\* Gemini and a failure never stops the later ones: once the node is left all
\* three were invoked; if one of them answered the request did not fail, and
\* responses and votes hold exactly the experts that answered and
\* failed_models exactly those that raised.
C1_PartialFailureTolerated ==
    LET calls == CallsOf("council_debate")
    IN  /\ \A i \in 1..Len(calls) : calls[i].model = COUNCIL_EXPERTS[i].name
        /\ (calls # <<>> /\ pc # "council_debate") => Len(calls) = Len(COUNCIL_EXPERTS)
        /\ (pc # "council_debate" /\ \E i \in 1..Len(calls) : calls[i].ok) =>
              /\ http.status # 500
              /\ DictKeys(state.responses) = AnsweredKeys(calls)
              /\ DictKeys(state.votes) = AnsweredKeys(calls)
              /\ state.failed_models = FailedNames(calls)

\* C1 witness: GPT-4o raised, Claude and Gemini were still invoked and
\* answered, and council_debate returned their two opinions
C1_Witness ==
    /\ pc = "synthesize"
    /\ state.failed_models = <<"GPT-4o">>
    /\ DictKeys(state.responses) = {"claude", "gemini"}
    /\ DictKeys(state.votes) = {"claude", "gemini"}

\* every expert of the request's lane was invoked and raised
AllExpertsFailed ==
    \/ \E i \in 1..Len(invocations) :
          invocations[i].node = "fast_path" /\ ~invocations[i].ok
    \/ LET calls == CallsOf("council_debate")
       IN  /\ pc # "council_debate"
           /\ Len(calls) = Len(COUNCIL_EXPERTS)
           /\ \A i \in 1..Len(calls) : ~calls[i].ok

\* the request failed before synthesize: HTTP 500, no backend invoked, no
\* response text, no consultation record stored or logged to the dataset
FailedBeforeSynthesis ==
    /\ pc = "done"
    /\ http.status = 500
    /\ http.body = NoBody
    /\ CallsOf("synthesize") = <<>>
    /\ state.final_response = <<>>
    /\ ~stored
    /\ ~dataset_logged

\* C2 as stated: when every expert invocation fails the request ends in a
\* terminal failure, synthesize is not run, there is no response text and
\* nothing at all is persisted.
C2_NothingPersisted ==
    AllExpertsFailed => (FailedBeforeSynthesis /\ ~image_storage)

\* C2 amended: when every expert invocation fails the request ends in a
\* terminal failure, synthesize is not run, there is no response text and no
\* consultation record is stored or logged to the dataset (the image of the
\* request may already be in object storage).
C2_NoRecordPersisted ==
    AllExpertsFailed => FailedBeforeSynthesis

\* C2 witness: all three council experts raised, after the image was uploaded
C2_Witness ==
    /\ AllExpertsFailed
    /\ state.route = "council"
    /\ image_storage
    /\ http.status = 500

URGENCY_ORDER == <<"LOW", "MEDIUM", "HIGH", "EMERGENCY">>
Severity(u) == CHOOSE i \in 1..Len(URGENCY_ORDER) : URGENCY_ORDER[i] = u

\* C3: for a non-empty set of opinions with urgencies among LOW < MEDIUM <
\* HIGH < EMERGENCY, the urgency synthesize sets is the maximum of theirs: one
\* of them, lower than none of them, and EMERGENCY when any is EMERGENCY.
C3_MaxUrgency ==
    (pc = "guardrails" /\ state.votes # <<>>) =>
        /\ \E i \in 1..Len(state.votes) : state.urgency = state.votes[i].v.urgency
        /\ \A i \in 1..Len(state.votes) :
              Severity(state.urgency) >= Severity(state.votes[i].v.urgency)
        /\ (\E i \in 1..Len(state.votes) : state.votes[i].v.urgency = "EMERGENCY")
              => state.urgency = "EMERGENCY"

\* C3 witness: the first opinion is LOW, a later one EMERGENCY, and synthesize
\* has set EMERGENCY
C3_Witness ==
    /\ pc = "guardrails"
    /\ Len(state.votes) = 3
    /\ state.votes[1].v.urgency = "LOW"
    /\ state.votes[3].v.urgency = "EMERGENCY"
    /\ state.urgency = "EMERGENCY"

\* C4: the route the orchestrator sets is council exactly when the state has an
\* image or the lowercased text contains a high-stakes keyword, fast
\* otherwise, and equals the route it set the time before whenever text and
\* has_image are the same.
C4_RouteIsPure ==
    pc = "retrieve_knowledge" =>
        /\ state.route =
              IF state.image # NoImage
                    \/ ContainsAny(Lower(state.text), HIGH_STAKES_KEYWORDS)
              THEN "council" ELSE "fast"
        /\ (/\ ret.seen
            /\ ret.text = state.text
            /\ (ret.image # NoImage) = (state.image # NoImage))
              => ret.route = state.route

\* C4 witness: a keyword in mixed case and no image go to council, right after
\* a request that went to fast
C4_Witness ==
    /\ pc = "retrieve_knowledge"
    /\ state.text = T_CHEST
    /\ state.image = NoImage
    /\ state.route = "council"
    /\ ret.seen
    /\ ret.route = "fast"

\* C5: a request with an image and empty or absent text is routed to council:
\* the orchestrator returns with route council and the request goes on to the
\* expert phase.
C5_ImageOnlyToCouncil ==
    (/\ request.image \notin {NoImage, ""}
     /\ ~Truthy(request.text)
     /\ pc \notin {"council_consult", "orchestrator"}) =>
        /\ state.route = "council"
        /\ pc \in {"retrieve_knowledge", "council_debate", "synthesize",
                   "guardrails", "evaluate", "done"}
        /\ pc = "done" => CallsOf("council_debate") # <<>>

\* C5 what happens: the image-only request reaches the orchestrator with
\* text None and ends with HTTP 500, before any expert is invoked
C5_Witness ==
    /\ request.image \notin {NoImage, ""}
    /\ ~Truthy(request.text)
    /\ state.text = None
    /\ pc = "done"
    /\ http.status = 500
    /\ http.detail = "AttributeError"
    /\ invocations = <<>>

\* some check of the evaluation failed
SomeCheckFailed(g) == \E i \in 1..Len(g.checks) : HasWarningMarker(g.checks[i].message)

\* C6: the blocking mode the evaluator must offer: a failing check makes
\* all_passed false and the request ends with a rejection, before the quality
\* evaluation, persistence or a consultation response.
C6_BlockingRejects ==
    (pc \in {"evaluate", "done"} /\ SomeCheckFailed(guardrail_results)) =>
        /\ ~guardrail_results.all_passed
        /\ pc = "done"
        /\ http.status = 400
        /\ evaluations = NoEvaluations
        /\ ~stored
        /\ ~dataset_logged

\* C6 what happens: a check failed, all_passed is true all the same, and the
\* consultation response is returned
C6_Witness ==
    /\ pc = "done"
    /\ SomeCheckFailed(guardrail_results)
    /\ guardrail_results.all_passed
    /\ "blocked_reason" \notin DOMAIN guardrail_results
    /\ http.status = 200

\* C7: the evaluation of a request has all_passed true and every check passed,
\* its warnings are exactly the checks whose message carries WARNING:, in check
\* order, and the request is not rejected at the gate: it ends with the
\* consultation response.
C7_AdvisoryContinues ==
    LET g == guardrail_results
        Warned(c) == HasWarningMarker(c.message)
        warned == SelectSeq(g.checks, Warned)
    IN  (g.checks # <<>>) =>
            /\ g.all_passed
            /\ \A i \in 1..Len(g.checks) : g.checks[i].passed
            /\ g.warnings = [i \in 1..Len(warned) |->
                                [check |-> warned[i].name, message |-> warned[i].message]]
            /\ pc \in {"evaluate", "done"}
            /\ pc = "done" => http.status = 200

\* C7 witness: two checks warned and the response was returned
C7_Witness ==
    /\ pc = "done"
    /\ http.status = 200
    /\ Len(guardrail_results.warnings) = 2
    /\ guardrail_results.warnings[1].check = "response_length"
    /\ guardrail_results.warnings[2].check = "urgency_present"

CheckEntry(name, result) ==
    [name |-> name, passed |-> result.passed, message |-> result.message]

\* C8: run_all_guardrails reports the four checks in the order
\* emergency_routing, response_length, urgency_present, disclaimer_compliance,
\* each entry being what its own check gives on its own arguments, whatever the
\* checks before it gave.
C8_AllChecksReported ==
    pc = "return" =>
        ret.checks = <<
            CheckEntry("emergency_routing",
                       check_emergency_keywords_routed(call.patient_input, call.route)),
            CheckEntry("response_length",
                       check_response_length(call.response, DEFAULT_MAX_WORDS)),
            CheckEntry("urgency_present", check_urgency_present(call.response)),
            CheckEntry("disclaimer_compliance",
                       check_medical_disclaimer_compliance(call.response, call.route)) >>

\* C8 witness: the first and the second check both warned and all four are
\* reported
C8_Witness ==
    /\ pc = "return"
    /\ Len(ret.checks) = 4
    /\ HasWarningMarker(ret.checks[1].message)
    /\ HasWarningMarker(ret.checks[2].message)
    /\ ~HasWarningMarker(ret.checks[4].message)

\* C9: the disclaimer_compliance check warns exactly when the urgency passed
\* to the evaluator is EMERGENCY and the text contains no word of the action
\* vocabulary.
C9_EscalationWarns ==
    pc = "return" =>
        (HasWarningMarker(ret.checks[4].message)
            <=> (/\ call.urgency = "EMERGENCY"
                 /\ ~ContainsAny(Lower(call.response), ACTION_KEYWORDS)))

\* C9 what happens: urgency EMERGENCY is passed with a text that has no action
\* word, and disclaimer_compliance reports no warning
C9_Witness ==
    /\ pc = "return"
    /\ call.urgency = "EMERGENCY"
    /\ call.response = P_REST
    /\ ~ContainsAny(Lower(call.response), ACTION_KEYWORDS)
    /\ ~HasWarningMarker(ret.checks[4].message)
    /\ ret.warnings = <<[check |-> "urgency_present",
                         message |-> ret.checks[3].message]>>

\* C10: the response_length check warns exactly when the text has more than 50
\* whitespace-separated words: not at 50 words, and at 51.
C10_LengthCheck ==
    pc = "return" =>
        /\ HasWarningMarker(ret.checks[2].message) <=> (call.words > 50)
        /\ call.words = 50 => ~HasWarningMarker(ret.checks[2].message)
        /\ call.words = 51 => HasWarningMarker(ret.checks[2].message)

\* C10 witness: a response of 51 words was evaluated and the check warned
C10_Witness ==
    /\ pc = "return"
    /\ call.words = 51
    /\ HasWarningMarker(ret.checks[2].message)

\* C11: synthesize invokes the backends in the order GPT-4o, Claude, Gemini,
\* each at most once: the i-th call of the node is to the i-th backend, every
\* call before the last one raised (so none follows a call that returned), and
\* the node is left only after a backend returned or all three raised.
C11_SynthesisOrder ==
    LET calls == CallsOf("synthesize")
    IN  /\ Len(calls) <= 3
        /\ \A i \in 1..Len(calls) :
              calls[i].model = <<"GPT-4o", "Claude", "Gemini">>[i]
        /\ \A i \in 1..(Len(calls) - 1) : ~calls[i].ok
        /\ pc \in {"guardrails", "evaluate"} =>
              /\ calls # <<>>
              /\ calls[Len(calls)].ok \/ Len(calls) = 3

\* C11 witness: GPT-4o raised, Claude returned, Gemini was not invoked
C11_Witness ==
    /\ pc = "guardrails"
    /\ CallsOf("synthesize") = <<Invoked("synthesize", "GPT-4o", FALSE),
                                 Invoked("synthesize", "Claude", TRUE)>>

\* the synthesize node has returned after every backend raised
AllBackendsFailed ==
    /\ pc = "guardrails"
    /\ Len(CallsOf("synthesize")) = 3
    /\ \A i \in 1..3 : ~CallsOf("synthesize")[i].ok

\* C12: when every backend raised, synthesize returns all the same: the final
\* text is the text of the first opinion in the order gpt4, claude, gemini
\* among those present, or, with no opinion, the static message naming a
\* healthcare provider; urgency is one of the opinions' (MEDIUM with none) and
\* confidence lies between the opinions' lowest and highest (0.5 with none).
C12_SynthesisFallback ==
    AllBackendsFailed =>
        LET present == {k \in {"gpt4", "claude", "gemini"} : DictHas(state.responses, k)}
            first == IF "gpt4" \in present THEN "gpt4"
                     ELSE IF "claude" \in present THEN "claude" ELSE "gemini"
            n == Len(state.votes)
        IN  /\ http.status = 0
            /\ IF present = {}
               THEN /\ state.final_response = STATIC_FALLBACK
                    /\ Contains(state.final_response,
                                <<"c","o","n","s","u","l","t"," ","a"," ","h","e","a","l","t","h","c","a","r","e"," ","p","r","o","v","i","d","e","r">>)
               ELSE state.final_response = DictGet(state.responses, first)
            /\ IF n = 0
               THEN state.urgency = "MEDIUM" /\ state.confidence = 500
               ELSE /\ \E i \in 1..n : state.urgency = state.votes[i].v.urgency
                    /\ \E i \in 1..n : state.confidence >= state.votes[i].v.confidence
                    /\ \E i \in 1..n : state.confidence <= state.votes[i].v.confidence

\* C12 witness: every backend raised with the opinions of claude and gemini
\* present, and the final text is claude's
C12_Witness ==
    /\ AllBackendsFailed
    /\ DictKeys(state.responses) = {"claude", "gemini"}
    /\ state.final_response = P_LOW
    /\ state.final_response # DictGet(state.responses, "gemini")

\* synthesize ran on no opinion at all and every backend raised: the static
\* message is the final text
StaticFallbackReached ==
    /\ AllBackendsFailed
    /\ state.responses = <<>>
    /\ state.final_response = STATIC_FALLBACK

-----------------------------------------------------------------------------
(* get_variant called directly, over several runs of the process *)

VariantExperiments == {"prompt_style", "council_threshold", "no_such_experiment"}
VariantSubjects == {"P12345", "P67890"}
\* the strings get_variant hashes: it reaches hash() for an enabled experiment
\* only
VariantKeys == {<<"prompt_style", p>> : p \in VariantSubjects}
\* values of hash(...) % 100 at the ends of the three ranges
VariantBuckets == {0, 69, 70, 84, 85, 99}
\* hash() of str is salted anew for every run of the process: any assignment
\* of buckets to the strings
ProcessHashes == [VariantKeys -> VariantBuckets]

NoAssignment == [seen |-> FALSE, experiment_name |-> "", patient_id |-> "", variant |-> ""]

VariantInit ==
    /\ pc = "running"
    /\ NoRequestInFlight
    /\ str_hash \in ProcessHashes
    /\ call = NoCall
    /\ ret = NoAssignment

\* one call of get_variant; call keeps its arguments, the bucket it computed
\* (-1 when it returned before hashing) and its result, ret the call before
GetVariantCall(experiment_name, patient_id) ==
    /\ pc = "running"
    /\ call' = [fn |-> "get_variant",
                experiment_name |-> experiment_name,
                patient_id |-> patient_id,
                hash_value |-> IF <<experiment_name, patient_id>> \in DOMAIN str_hash
                               THEN str_hash[<<experiment_name, patient_id>>] ELSE -1,
                variant |-> get_variant(experiment_name, patient_id, str_hash)]
    /\ ret' = IF call.fn = "get_variant"
              THEN [seen |-> TRUE, experiment_name |-> call.experiment_name,
                    patient_id |-> call.patient_id, variant |-> call.variant]
              ELSE ret
    /\ UNCHANGED <<pc, str_hash, request, formatted_text, state, locals,
                   invocations, image_storage, guardrail_results, evaluations,
                   stored, dataset_logged, span_logged, http>>

\* the process ends and a new one starts, with a new salt
ProcessRestart ==
    /\ pc = "running"
    /\ str_hash' \in ProcessHashes
    /\ UNCHANGED <<pc, request, formatted_text, state, locals, invocations,
                   image_storage, guardrail_results, evaluations, stored,
                   dataset_logged, span_logged, http, call, ret>>

VariantNext ==
    \/ \E e \in VariantExperiments, p \in VariantSubjects : GetVariantCall(e, p)
    \/ ProcessRestart

SpecVariant == VariantInit /\ [][VariantNext]_vars

\* C13: get_variant returns the same variant for the same experiment and
\* subject on every call, whatever was called before and in whichever run of
\* the process: a call with the arguments of the call before it has its
\* result.
C13_VariantDeterministic ==
    (/\ call.fn = "get_variant"
     /\ ret.seen
     /\ ret.experiment_name = call.experiment_name
     /\ ret.patient_id = call.patient_id) => call.variant = ret.variant

\* C13 what happens: the same subject of prompt_style was assigned control in
\* one run of the process and detailed in the next
C13_Witness ==
    /\ call.fn = "get_variant"
    /\ ret.seen
    /\ ret.experiment_name = "prompt_style" /\ call.experiment_name = "prompt_style"
    /\ ret.patient_id = "P12345" /\ call.patient_id = "P12345"
    /\ ret.variant = "control"
    /\ call.variant = "detailed"

\* C14: get_variant returns control for an unknown or a disabled experiment;
\* for prompt_style it returns control for the buckets 0..69, detailed for
\* 70..84 and empathetic for 85..99, always a declared variant.
C14_VariantBuckets ==
    call.fn = "get_variant" =>
        IF call.experiment_name = "prompt_style"
        THEN /\ call.hash_value \in 0..99
             /\ call.variant = IF call.hash_value <= 69 THEN "control"
                               ELSE IF call.hash_value <= 84 THEN "detailed"
                               ELSE "empathetic"
             /\ call.variant \in {"control", "detailed", "empathetic"}
        ELSE call.variant = "control"

\* C14 witness: bucket 84 of prompt_style gave detailed, after a call for the
\* disabled experiment gave control
C14_Witness ==
    /\ call.fn = "get_variant"
    /\ call.experiment_name = "prompt_style"
    /\ call.hash_value = 84
    /\ call.variant = "detailed"
    /\ ret.seen
    /\ ret.experiment_name = "council_threshold"
    /\ ret.variant = "control"

-----------------------------------------------------------------------------
(* check_all_metrics called directly, on any map of metrics *)

\* the most metrics one map holds
MaxMetrics == 2

\* values on either side of each threshold and of its warning threshold
MetricValues(metric_name) ==
    CASE metric_name = "response_latency" -> {12000, 12001, 15000, 15001}
      [] metric_name = "word_count" -> {27000, 27001, 30000, 30001}
      [] metric_name = "confidence_score" -> {600, 699, 700, 750, 777, 778, 950}
      [] metric_name = "hallucination_score" -> {210, 211, 300, 301}
      [] metric_name = "council_consensus" -> {659, 660, 733, 734}
      [] OTHER -> {0, 950}

MetricNames == DictKeys(THRESHOLDS) \cup {"no_such_metric"}

\* every map of at most MaxMetrics metrics, in every order of insertion
MetricMaps ==
    UNION {{q \in [1..n -> UNION {[k : {m}, v : MetricValues(m)] : m \in MetricNames}] :
              \A i, j \in 1..n : i # j => q[i].k # q[j].k} : n \in 0..MaxMetrics}

NoThresholdResults == [checks |-> <<>>, critical_count |-> 0, warning_count |-> 0,
                       all_ok |-> TRUE]

MonitorInit ==
    /\ pc = "call"
    /\ NoRequestInFlight
    /\ str_hash \in [HashKeys -> {0}]
    /\ call \in {[fn |-> "check_all_metrics", metrics |-> m] : m \in MetricMaps}
    /\ ret = NoThresholdResults

MonitorCall ==
    /\ pc = "call"
    /\ ret' = check_all_metrics(call.metrics)
    /\ pc' = "return"
    /\ UNCHANGED <<str_hash, request, formatted_text, state, locals, invocations,
                   image_storage, guardrail_results, evaluations, stored,
                   dataset_logged, span_logged, http, call>>

MonitorNext == MonitorCall

SpecMonitor == MonitorInit /\ [][MonitorNext]_vars

\* the status of a value against a one-sided threshold, in thousandths: over a
\* max-bound M (under a min-bound m) critical, within the warning fraction w
\* of it warning, else ok
StatusAgainst(t, value) ==
    IF t.has_max
    THEN IF value > t.max_value THEN "critical"
         ELSE IF t.max_value * t.warning_level < value * 1000 THEN "warning"
         ELSE "ok"
    ELSE IF value < t.min_value THEN "critical"
         ELSE IF value * t.warning_level < t.min_value * 1000 THEN "warning"
         ELSE "ok"

\* C15: the check of a metric that has a threshold is critical iff the value
\* is beyond the bound (> M, < m), warning iff it is within the bound and
\* beyond the warning threshold (M*w < value <= M, m <= value < m/w), ok
\* otherwise; confidence_score is critical at 0.6, warning at 0.75, ok at 0.95.
C15_ThresholdStatus ==
    pc = "return" =>
        \A i \in 1..Len(ret.checks) :
            LET c == ret.checks[i]
            IN  /\ DictHas(THRESHOLDS, c.metric) =>
                      c.status = StatusAgainst(DictGet(THRESHOLDS, c.metric), c.value)
                /\ c.metric = "confidence_score" =>
                      /\ c.value = 600 => c.status = "critical"
                      /\ c.value = 750 => c.status = "warning"
                      /\ c.value = 950 => c.status = "ok"
                      /\ c.status = "critical" <=> c.value < 700
                      /\ c.status = "warning" <=> (700 <= c.value /\ c.value * 9 < 7000)

\* C15 witness: in one map confidence_score 0.75 was classified warning and
\* word_count 30.001, over its max-bound, critical
C15_Witness ==
    /\ pc = "return"
    /\ Len(ret.checks) = 2
    /\ ret.checks[1] = [metric |-> "confidence_score", value |-> 750,
                        status |-> "warning", severity |-> "warning"]
    /\ ret.checks[2].metric = "word_count"
    /\ ret.checks[2].value = 30001
    /\ ret.checks[2].status = "critical"

\* how many checks have the status
CountStatus(checks, status) == Cardinality({i \in 1..Len(checks) : checks[i].status = status})

\* C16: check_all_metrics returns, for every map, one check per metric of the
\* map, in map order, and no other; a metric without a threshold has status
\* unknown and is counted neither as critical nor as warning.
C16_OneCheckPerMetric ==
    pc = "return" =>
        /\ Len(ret.checks) = Len(call.metrics)
        /\ \A i \in 1..Len(call.metrics) :
              /\ ret.checks[i].metric = call.metrics[i].k
              /\ ret.checks[i].value = call.metrics[i].v
              /\ call.metrics[i].k
                    \notin {"response_latency", "word_count", "confidence_score",
                            "hallucination_score", "council_consensus"}
                    <=> ret.checks[i].status = "unknown"
        /\ ret.critical_count = CountStatus(ret.checks, "critical")
        /\ ret.warning_count = CountStatus(ret.checks, "warning")
        /\ ret.all_ok <=> (ret.critical_count = 0)

\* C16 witness: a map with an unknown metric and a critical one: two checks,
\* the first unknown, one critical, no warning
C16_Witness ==
    /\ pc = "return"
    /\ Len(call.metrics) = 2
    /\ call.metrics[1].k = "no_such_metric"
    /\ ret.checks[1].status = "unknown"
    /\ ret.checks[2].status = "critical"
    /\ ret.critical_count = 1
    /\ ret.warning_count = 0
    /\ ~ret.all_ok

\* the empty map gives no check and all_ok
EmptyMapChecked ==
    /\ pc = "return"
    /\ call.metrics = <<>>
    /\ ret = NoThresholdResults

\* C19: the knowledge search cannot stall a request: a request that has waited
\* out the 10 seconds of the search gets on to the expert phase (or beyond)
\* with retrieved_context None, whether or not the search thread ever ends.
C19_RetrievalBounded ==
    (pc = "executor_shutdown")
        ~> (/\ pc \in {"fast_path", "council_debate", "synthesize", "guardrails",
                       "evaluate", "done"}
            /\ state.retrieved_context = None)

\* C19 what happens: the wait for the result has timed out and the handler is
\* in the shutdown of the executor, which waits for the search thread
C19_Witness ==
    /\ pc = "executor_shutdown"
    /\ Truthy(state.text)
    /\ state.retrieved_context = Absent
    /\ invocations = <<>>
    /\ http = NoHttp

\* C20: an expert call that never returns is cut off: a request in
\* council_debate leaves the node, with the opinions it has or with the
\* failure of all experts, also when the expert it is calling never answers.
C20_ExpertCallBounded ==
    (pc = "council_debate") ~> (pc \in {"synthesize", "done"})

\* C20 what happens: GPT-4o has answered, the handler is in the call of Claude,
\* and nothing but Claude's answer or exception lets it go on
C20_Witness ==
    /\ pc = "council_debate"
    /\ locals.step = 1
    /\ DictKeys(locals.responses) = {"gpt4"}
    /\ ~ENABLED HandlerStep

\* the request in flight has a text or an image
ValidInput == Truthy(request.text) \/ request.image \notin {NoImage, ""}

\* an expert of the request's lane has answered
SomeExpertSucceeded ==
    \E i \in 1..Len(invocations) :
        invocations[i].node \in {"fast_path", "council_debate"} /\ invocations[i].ok

\* a request with valid input and an answering expert is not failed, and ends
\* with the consultation response, whatever else failed on the way
DegradedRequestsAnswered ==
    (request # NoRequest /\ ValidInput /\ SomeExpertSucceeded) =>
        /\ http.status \in {0, 200}
        /\ pc = "done" => (http.status = 200 /\ http.body = ConsultResult(state))

\* C17: a request that ends without the consultation response ends with an
\* input error (400 for a request with neither text nor image), with a
\* guardrail rejection (400 after a failed evaluation), or with the failure of
\* every expert (500); and a request with valid input and an answering expert
\* always ends with the response.
C17_OnlyTerminalFailures ==
    /\ DegradedRequestsAnswered
    /\ (pc = "done" /\ http.status # 200) =>
          \/ http.status = 400 /\ ~ValidInput
          \/ http.status = 400 /\ ~guardrail_results.all_passed
          \/ http.status = 500 /\ AllExpertsFailed

\* C17 what happens: a request with an image and an empty text, whose image was
\* uploaded, ends with HTTP 500 although no expert failed
C17_Witness ==
    /\ pc = "done"
    /\ http.status = 500
    /\ ValidInput
    /\ request.text = <<>>
    /\ image_storage
    /\ ~AllExpertsFailed
    /\ guardrail_results = NoGuardrails

\* C17, the part that holds: retrieval failed, the first synthesis backend
\* raised, the scorer, the span, the store and the dataset logger failed, and
\* the response was returned
DegradedResponseReached ==
    /\ pc = "done"
    /\ http.status = 200
    /\ state.retrieved_context = None
    /\ \E i \in 1..Len(invocations) :
          invocations[i].node = "synthesize" /\ ~invocations[i].ok
    /\ evaluations.hallucination = "error"
    /\ ~span_logged
    /\ ~stored
    /\ ~dataset_logged

\* C18: a request with neither text nor image ends with HTTP 400 at once: the
\* council state is untouched (no variant, no route), no retrieval, expert or
\* synthesis call was made, nothing was evaluated, uploaded, stored or logged.
C18_EmptyRequestRejected ==
    (request # NoRequest /\ ~Truthy(request.text) /\ request.image \in {NoImage, ""}) =>
        /\ pc = "done"
        /\ http.status = 400
        /\ http.body = NoBody
        /\ state = InitialState(None, NoImage, "")
        /\ state.experiment_variants = <<>>
        /\ invocations = <<>>
        /\ guardrail_results = NoGuardrails
        /\ evaluations = NoEvaluations
        /\ ~image_storage
        /\ ~stored
        /\ ~dataset_logged
        /\ ~span_logged

\* C18 witness: the request with an empty text and an empty image was rejected
C18_Witness ==
    /\ pc = "done"
    /\ request.text = <<>>
    /\ request.image = ""
    /\ http.status = 400
    /\ invocations = <<>>


\* expert i of council_debate can answer in the current state
CanAnswer(i) == ENABLED (\E c \in ExpertContents : CouncilInvoke(i, TRUE, c))

\* C21: on the council lane the three expert invocations are in flight
\* together: while council_debate waits for its experts, each expert that has
\* not answered yet can be the next to answer, so Claude or Gemini can answer
\* before a slow GPT-4o does
C21_ExpertsInFlightTogether ==
    pc = "council_debate" =>
        \A i \in 1..Len(COUNCIL_EXPERTS) : locals.step < i => CanAnswer(i)

\* council_debate has GPT-4o's answer and waits for Claude: Claude is the only
\* expert that can answer, Gemini's invocation has not started
C21_Witness ==
    /\ pc = "council_debate"
    /\ locals.step = 1
    /\ CallsOf("council_debate") = <<Invoked("council_debate", "GPT-4o", TRUE)>>
    /\ CanAnswer(2)
    /\ ~CanAnswer(3)


\* no state of the graph carries the route that route_decision maps to
\* visual_path
VisualLaneNeverEntered == route_decision(state) # "visual_path"

\* C22: a state with an image, no text and no high-stakes keyword leaves the
\* orchestrator with route visual, which route_decision maps to visual_path,
\* the lane of the single visual expert.
C22_ImageOnlyToVisual ==
    (/\ pc # "orchestrator"
     /\ state.image = "iVBORw0KGgo="
     /\ ~Truthy(state.text)) =>
        /\ pc = "retrieve_knowledge"
        /\ state.route = "visual"
        /\ route_decision(state) = "visual_path"

\* C22 what happens: the state with an image and the empty text leaves the
\* orchestrator with route council, on the way to council_debate
C22_Witness ==
    /\ pc = "retrieve_knowledge"
    /\ state.image = "iVBORw0KGgo="
    /\ state.text = <<>>
    /\ state.route = "council"
    /\ route_decision(state) = "council_debate"


\* C23: a total synthesis failure is observable in what synthesize returns:
\* two runs on the same opinions that return the same state either both had
\* every backend raise or both had a backend answer.
C23_SynthesisFailureRecorded ==
    (pc = "guardrails" /\ ret # <<>> /\ ret[1].state = state) =>
        ret[1].all_failed = AllBackendsFailed

\* C23 what happens: every backend raised in the first run and GPT-4o answered
\* in the second, and the two returned states are equal in every key
C23_Witness ==
    /\ pc = "guardrails"
    /\ ret # <<>>
    /\ ret[1].all_failed
    /\ CallsOf("synthesize") = <<Invoked("synthesize", "GPT-4o", TRUE)>>
    /\ ret[1].state = state
    /\ state.final_response = R_ANGINA


-----------------------------------------------------------------------------
(* The aggregation of synthesize, on opinions in any order *)

\* a vote of an expert: urgency and confidence, either of which may be missing
AggVoteValues ==
    [urgency : {"LOW", "HIGH"}, confidence : {0, 300, 800, 1000}]
        \cup [urgency : {"EMERGENCY"}] \cup [confidence : {800}]

\* every votes dict over VoteKeys, its keys in the order of insertion
AggVotes ==
    UNION {{q \in [1..n -> [k : VoteKeys, v : AggVoteValues]] :
              \A i, j \in 1..n : i < j => KeyIndex(q[i].k) < KeyIndex(q[j].k)} :
           n \in 0..Cardinality(VoteKeys)}

\* the orders in which n experts can have completed
Orders(n) == {p \in [1..n -> 1..n] : \A i, j \in 1..n : p[i] = p[j] => i = j}

AggInit ==
    /\ pc = "synthesize"
    /\ request = NoRequest
    /\ formatted_text = None
    /\ \E votes \in AggVotes :
          state = [InitialState(T_MILD, NoImage, "P12345") EXCEPT
                      !.route = "council", !.votes = votes,
                      !.responses = ResponsesOf(votes)]
    /\ locals = NoLocals
    /\ invocations = <<>>
    /\ image_storage = FALSE
    /\ guardrail_results = NoGuardrails
    /\ evaluations = NoEvaluations
    /\ stored = FALSE
    /\ dataset_logged = FALSE
    /\ span_logged = FALSE
    /\ http = NoHttp
    /\ str_hash \in [HashKeys -> {0}]
    /\ call = NoCall
    /\ ret = <<>>

\* the node is entered again with the same opinions, inserted in the order p;
\* ret keeps the state the first run returned
AggReorder(p) ==
    /\ pc = "guardrails"
    /\ ret = <<>>
    /\ DOMAIN p = 1..Len(state.votes)
    /\ ret' = <<state>>
    /\ state' = [InitialState(T_MILD, NoImage, "P12345") EXCEPT
                    !.route = "council",
                    !.votes = [i \in 1..Len(state.votes) |-> state.votes[p[i]]],
                    !.responses = [i \in 1..Len(state.votes) |-> state.responses[p[i]]]]
    /\ pc' = "synthesize"
    /\ locals' = NoLocals
    /\ invocations' = <<>>
    /\ UNCHANGED <<str_hash, request, formatted_text,
                   image_storage, guardrail_results, evaluations, stored,
                   dataset_logged, span_logged, http, call>>

AggNext ==
    \/ SynthesizeInvoke(1, TRUE, R_CALL)
    \/ SynthesizeFinish
    \/ \E n \in 0..Cardinality(VoteKeys) : \E p \in Orders(n) : AggReorder(p)

SpecAggregate == AggInit /\ [][AggNext]_vars

\* the confidences of the opinions, 0.5 for an opinion without one, in
\* thousandths
OpinionConfidences(votes) ==
    [i \in 1..Len(votes) |->
        IF "confidence" \in DOMAIN votes[i].v THEN votes[i].v.confidence ELSE 500]

Distance(a, b) == IF a >= b THEN a - b ELSE b - a

\* C24 as stated: the confidence synthesize sets is the arithmetic mean of the
\* opinions' confidences (0.5 for an opinion without one), 0.5 with no
\* opinion, and lies in [0,1] when all of theirs do.
C24_ConfidenceIsMean ==
    pc = "guardrails" =>
        LET confidences == OpinionConfidences(state.votes)
            n == Len(confidences)
        IN  /\ IF n = 0 THEN state.confidence = 500
               ELSE n * state.confidence = SumSeq(confidences)
            /\ (\A i \in 1..n : confidences[i] \in 0..1000)
                  => state.confidence \in 0..1000

\* C24 amended: the confidence synthesize sets is the arithmetic mean of the
\* opinions' confidences (0.5 for an opinion without one) rounded to three
\* decimal places, so within 0.0005 of the mean; it is 0.5 with no opinion
\* and lies in [0,1] when all of theirs do.
C24_ConfidenceIsRoundedMean ==
    pc = "guardrails" =>
        LET confidences == OpinionConfidences(state.votes)
            n == Len(confidences)
        IN  /\ IF n = 0 THEN state.confidence = 500
               ELSE 2 * Distance(n * state.confidence, SumSeq(confidences)) <= n
            /\ (\A i \in 1..n : confidences[i] \in 0..1000)
                  => state.confidence \in 0..1000

\* C24 witness: three opinions, one without a confidence, whose mean
\* (0.3 + 0.5 + 0.8) / 3 has more than three decimals; synthesize sets 0.533
C24_Witness ==
    /\ pc = "guardrails"
    /\ Len(state.votes) = 3
    /\ OpinionConfidences(state.votes) = <<300, 500, 800>>
    /\ "confidence" \notin DOMAIN state.votes[2].v
    /\ state.confidence = 533


\* C25: urgency and confidence depend only on the set of opinions: synthesize
\* run again on the same opinions, inserted in the same or in any other order,
\* sets the urgency and the confidence it set the first time.
C25_OrderIndependent ==
    (pc = "guardrails" /\ ret # <<>>) =>
        /\ state.urgency = ret[1].urgency
        /\ state.confidence = ret[1].confidence

\* C25 witness: three opinions with different urgencies and confidences were
\* synthesized with the most urgent one first, then with it last
C25_Witness ==
    /\ pc = "guardrails"
    /\ ret # <<>>
    /\ Len(state.votes) = 3
    /\ state.votes = <<ret[1].votes[3], ret[1].votes[2], ret[1].votes[1]>>
    /\ state.votes[3].v = [urgency |-> "HIGH", confidence |-> 1000]
    /\ state.votes[2].v = [urgency |-> "LOW", confidence |-> 300]
    /\ state.votes[1].v = [confidence |-> 800]
    /\ state.urgency = "HIGH"
    /\ state.confidence = 700


\* C26: in the threshold results of a completed request critical_count is the
\* number of critical checks, warning_count the number of warning checks and
\* all_ok holds exactly when critical_count is 0 (a warning and a metric
\* without threshold leave it true); whatever all_ok is, the request is
\* answered 200 with the result of the council, unchanged.
C26_AllOkAdvisory ==
    (pc = "done" /\ evaluations.performance.metrics # <<>>) =>
        LET r == evaluations.performance.threshold_results
        IN  /\ Len(r.checks) = Len(evaluations.performance.metrics)
            /\ r.critical_count = CountStatus(r.checks, "critical")
            /\ r.warning_count = CountStatus(r.checks, "warning")
            /\ r.all_ok <=> r.critical_count = 0
            /\ check_all_metrics(<<[k |-> "no_such_metric", v |-> 0],
                                   [k |-> "response_latency", v |-> 12001]>>).all_ok
            /\ http.status = 200
            /\ http.body = ConsultResult(state)
            /\ http.body.response = state.final_response
            /\ http.body.urgency = MaxUrgency(state.votes)

\* C26 witness: a completed request whose word count and hallucination score
\* are critical and whose latency is a warning: all_ok is false and the
\* response is the synthesized text
C26_Witness ==
    /\ pc = "done"
    /\ evaluations.performance.threshold_results.critical_count = 2
    /\ evaluations.performance.threshold_results.warning_count = 1
    /\ ~evaluations.performance.threshold_results.all_ok
    /\ evaluations.word_count = DEFAULT_MAX_WORDS + 1
    /\ http.status = 200
    /\ http.body.response = Words(W_OK, DEFAULT_MAX_WORDS + 1)


\* a completed request with a warning and no critical check: all_ok is true
WarningOnlyReached ==
    /\ pc = "done"
    /\ evaluations.performance.threshold_results.warning_count = 1
    /\ evaluations.performance.threshold_results.critical_count = 0
    /\ evaluations.performance.threshold_results.all_ok


\* C27: in the pipeline the lane fixes the final urgency: a completed request
\* of the fast lane has urgency MEDIUM and one of the council lane HIGH, in
\* the state, in the response and in every vote; no completed request has
\* LOW or EMERGENCY.
C27_UrgencyFixedByLane ==
    (pc = "done" /\ http.status = 200) =>
        /\ state.route \in {"fast", "council"}
        /\ http.body.route_taken = state.route
        /\ http.body.urgency = state.urgency
        /\ state.urgency = IF state.route = "fast" THEN "MEDIUM" ELSE "HIGH"
        /\ \A i \in 1..Len(state.votes) : state.votes[i].v.urgency = state.urgency
        /\ http.body.urgency \notin {"LOW", "EMERGENCY"}

\* C27 witness: a completed council request with two opinions whose answer
\* tells the patient to call emergency services: its urgency is HIGH
C27_Witness ==
    /\ pc = "done"
    /\ http.status = 200
    /\ request.text = T_CHEST
    /\ state.route = "council"
    /\ Len(state.votes) = 2
    /\ http.body.response = R_CALL
    /\ http.body.urgency = "HIGH"

\* a completed request of the fast lane has urgency MEDIUM
FastLaneCompleted ==
    /\ pc = "done"
    /\ http.status = 200
    /\ state.route = "fast"
    /\ http.body.urgency = "MEDIUM"


\* C28: when a backend returns without raising but with the empty text,
\* synthesize tries no further backend and the final text is the fallback: the
\* text of the first opinion, or the static message when there is no opinion;
\* it is not the empty text the backend gave.
C28_EmptyAnswerFallsBack ==
    LET calls == CallsOf("synthesize")
    IN  /\ (/\ pc = "synthesize"
            /\ calls # <<>>
            /\ calls[Len(calls)].ok
            /\ locals.final_content = <<>>)
               => ~ENABLED (\E i \in 1..Len(SYNTHESIS_MODELS), ok \in BOOLEAN,
                               c \in SynthAnswers : SynthesizeInvoke(i, ok, c))
        /\ (/\ pc = "guardrails"
            /\ locals.final_content = <<>>)
               => /\ calls # <<>>
                  /\ \A i \in 1..Len(calls) : calls[i].ok <=> i = Len(calls)
                  /\ state.final_response =
                        IF state.responses = <<>> THEN STATIC_FALLBACK
                        ELSE state.responses[1].v
                  /\ state.final_response # <<>>

\* C28 witness: GPT-4o raised, Claude returned the empty text, Gemini was not
\* tried, and the final text is the opinion of gpt4
C28_Witness ==
    /\ pc = "guardrails"
    /\ CallsOf("synthesize") = <<Invoked("synthesize", "GPT-4o", FALSE),
                                 Invoked("synthesize", "Claude", TRUE)>>
    /\ locals.final_content = <<>>
    /\ DictKeys(state.responses) = {"gpt4", "gemini"}
    /\ state.final_response = R_ANGINA

\* a backend returned the empty text with no opinion at all: the static
\* message is the final text
EmptyAnswerStaticFallback ==
    /\ pc = "guardrails"
    /\ locals.final_content = <<>>
    /\ state.responses = <<>>
    /\ state.final_response = STATIC_FALLBACK


\* C29: in the pipeline the emergency_routing check never warns: the text the
\* guardrail reads is the text the orchestrator read, the keyword list is the
\* same, and every text with a high-stakes keyword was routed to council.
C29_RoutingCheckSilent ==
    guardrail_results.checks # <<>> =>
        /\ guardrail_results.checks[1].name = "emergency_routing"
        /\ ~HasWarningMarker(guardrail_results.checks[1].message)
        /\ \A i \in 1..Len(guardrail_results.warnings) :
              guardrail_results.warnings[i].check # "emergency_routing"
        /\ PatientInput(formatted_text) = state.text
        /\ ContainsAny(Lower(state.text), HIGH_STAKES_KEYWORDS)
              => state.route = "council"

\* C29 witness: the text "I have Chest Pain", with the keyword in mixed case,
\* went to council and the guardrails ran: emergency_routing passed
C29_Witness ==
    /\ pc = "evaluate"
    /\ formatted_text = T_CHEST
    /\ state.route = "council"
    /\ guardrail_results.checks[1].message = <<"Emergency routing check passed">>


-----------------------------------------------------------------------------
(* The pipeline on a text request of the fast lane, whose synthesized
   response has any number of words around the three word limits *)

\* the least and the greatest number of words of the synthesized response:
\* from below the monitor's warning threshold to over the guardrail's limit
MinResponseWords == 26
ResponseWords == MinResponseWords..(DEFAULT_MAX_WORDS + MaxOver)

LimitsNext ==
    \/ \E p \in PatientIds : ConsultBegin(T_MILD, NoImage, p)
    \/ \E uploaded \in BOOLEAN : CouncilConsult(uploaded)
    \/ Orchestrator
    \/ RetrieveKnowledge("empty")
    \/ FastPath(TRUE, R_ANGINA)
    \/ \E n \in ResponseWords : SynthesizeInvoke(1, TRUE, Words(W_OK, n))
    \/ SynthesizeFinish
    \/ Guardrails
    \/ \E h \in HallucinationResults, t \in ProcessingTimes, span_ok \in BOOLEAN,
          store_ok \in BOOLEAN, dataset_ok \in BOOLEAN :
          EvaluateAndRespond(h, t, span_ok, store_ok, dataset_ok)
    \/ NextRequest

SpecLimits == Init /\ [][LimitsNext]_vars

\* the check of the word_count metric in the threshold results
WordCountCheck ==
    LET checks == evaluations.performance.threshold_results.checks
    IN  checks[CHOOSE i \in 1..Len(checks) : checks[i].metric = "word_count"]

\* C30: the word limits of the three layers disagree. For every response of
\* 31 to 50 words the guardrail's length check passes without warning and the
\* quality evaluation marks the word count within_limit, yet the performance
\* monitor classifies word_count critical and all_ok is false; for 28 to 30
\* words the monitor reports a warning.
C30_WordLimitsDisagree ==
    (pc = "done" /\ http.status = 200) =>
        LET n == WordCount(http.body.response)
            length_check == guardrail_results.checks[2]
        IN  /\ evaluations.word_count = n
            /\ WordCountCheck.value = n * 1000
            /\ n \in 31..50 =>
                  /\ length_check.name = "response_length"
                  /\ length_check.passed
                  /\ ~HasWarningMarker(length_check.message)
                  /\ evaluations.within_limit
                  /\ WordCountCheck.status = "critical"
                  /\ ~evaluations.performance.threshold_results.all_ok
            /\ n \in 28..30 =>
                  /\ ~HasWarningMarker(length_check.message)
                  /\ evaluations.within_limit
                  /\ WordCountCheck.status = "warning"

\* C30 witness: a response of exactly 50 words is answered with no guardrail
\* warning about its length and within_limit true, while the monitor reports
\* word_count critical
C30_Witness ==
    /\ pc = "done"
    /\ http.status = 200
    /\ WordCount(http.body.response) = 50
    /\ guardrail_results.checks[2].message = <<"Length check passed (", "50", "/", "50", " words)">>
    /\ evaluations.within_limit
    /\ WordCountCheck.status = "critical"
    /\ ~evaluations.performance.threshold_results.all_ok

\* a response of 30 words: the monitor reports a warning, and with nothing
\* else critical all_ok is true
ThirtyWordsWarning ==
    /\ pc = "done"
    /\ WordCount(http.body.response) = 30
    /\ WordCountCheck.status = "warning"
    /\ evaluations.performance.threshold_results.all_ok

=============================================================================
